---- MODULE Spec2Model ----
(***************************************************************************)
(* Filament Tracker (src/filament_tracker.py): the two tables (jobs and    *)
(* spools) held in the Treeviews of the main window, the CSV files behind  *)
(* them, the totals panel, the two modal dialogs and the spool id          *)
(* generator.                                                              *)
(*                                                                         *)
(* Text is a sequence of one-character strings, so that strip(), lower(),  *)
(* startswith(), split("-"), isdigit(), int(), float() and the format      *)
(* specifications are computed character by character.  Numbers are        *)
(* integers: the alphabet of the model has digits, "-", letters and the    *)
(* blank, but no ".", "e", "inf" or "nan".                                 *)
(***************************************************************************)
EXTENDS Integers, Sequences, FiniteSets, TLC

(***************************************************************************)
(* Schemas and enumerations (lines 12-17)                                  *)
(***************************************************************************)
JOB_COLS == <<"Date", "Name of Job", "Grams Potential", "Status", "Lost (g)", "Spool ID">>

SPOOL_COLS == <<"Spool ID", "Material", "Other Material", "Color", "Other Color",
                "Spool Size (g)", "Notes", "Created">>

Range(s) == {s[i] : i \in 1..Len(s)}

S_init == <<"i","n","i","t">>
S_success == <<"s","u","c","c","e","s","s">>
S_failed == <<"f","a","i","l","e","d">>
S_pending == <<"p","e","n","d","i","n","g">>

STATUSES == <<S_init, S_success, S_failed, S_pending>>

S_Other == <<"O","t","h","e","r">>
S_PLA == <<"P","L","A">>
S_Black == <<"B","l","a","c","k">>

\* Of the nine materials and fourteen colours the model keeps the default
\* value and the escape value "Other" of each list.
MATERIALS == <<S_PLA, S_Other>>

COLORS == <<S_Black, S_Other>>

(***************************************************************************)
(* Python's str and number operations                                      *)
(***************************************************************************)
DigitChars == <<"0","1","2","3","4","5","6","7","8","9">>

IsDigitChar(c) == c \in Range(DigitChars)

DigitVal(c) == (CHOOSE i \in 1..10 : DigitChars[i] = c) - 1

IsSpace(c) == c = " "

UpperChars == <<"A","B","C","D","E","F","G","H","I","J","K","L","M",
                "N","O","P","Q","R","S","T","U","V","W","X","Y","Z">>

LowerChars == <<"a","b","c","d","e","f","g","h","i","j","k","l","m",
                "n","o","p","q","r","s","t","u","v","w","x","y","z">>

LowerChar(c) ==
    IF c \in Range(UpperChars)
    THEN LowerChars[CHOOSE i \in 1..26 : UpperChars[i] = c]
    ELSE c

\* str.lower()
Lower(s) == [i \in 1..Len(s) |-> LowerChar(s[i])]

RECURSIVE LStrip(_)
LStrip(s) == IF s # <<>> /\ IsSpace(Head(s)) THEN LStrip(Tail(s)) ELSE s

RECURSIVE RStrip(_)
RStrip(s) ==
    IF s # <<>> /\ IsSpace(s[Len(s)]) THEN RStrip(SubSeq(s, 1, Len(s) - 1)) ELSE s

\* str.strip()
Strip(s) == RStrip(LStrip(s))

\* str.startswith(prefix)
StartsWith(s, prefix) ==
    /\ Len(s) >= Len(prefix)
    /\ SubSeq(s, 1, Len(prefix)) = prefix

\* s.split("-")[-1]: the part of s after its last "-" (all of s if it has none)
RECURSIVE LastDashPart(_)
LastDashPart(s) ==
    IF \E i \in 1..Len(s) : s[i] = "-"
    THEN LastDashPart(SubSeq(s, (CHOOSE i \in 1..Len(s) : s[i] = "-") + 1, Len(s)))
    ELSE s

\* str.isdigit(): non-empty and every character a digit
IsDigit(s) == s # <<>> /\ \A i \in 1..Len(s) : IsDigitChar(s[i])

\* int(s) of a string of digits
RECURSIVE ToInt(_)
ToInt(s) ==
    IF s = <<>> THEN 0 ELSE 10 * ToInt(SubSeq(s, 1, Len(s) - 1)) + DigitVal(s[Len(s)])

\* str(n) of n >= 0
RECURSIVE NatToStr(_)
NatToStr(n) ==
    IF n < 10 THEN <<DigitChars[n + 1]>>
    ELSE NatToStr(n \div 10) \o <<DigitChars[(n % 10) + 1]>>

RECURSIVE ZeroPad(_, _)
ZeroPad(s, width) == IF Len(s) >= width THEN s ELSE ZeroPad(<<"0">> \o s, width)

\* f"{n:0<width>d}" of n >= 0
FormatD(n, width) == ZeroPad(NatToStr(n), width)

\* f"{x:.2f}" of an integral x
Format2f(x) ==
    (IF x < 0 THEN <<"-">> \o NatToStr(0 - x) ELSE NatToStr(x)) \o <<".","0","0">>

\* is_float(s): float(s) accepts surrounding blanks, an optional sign, digits
is_float(s) ==
    LET t == Strip(s)
        u == IF t # <<>> /\ Head(t) = "-" THEN Tail(t) ELSE t
    IN  IsDigit(u)

FloatOf(s) ==
    LET t == Strip(s)
    IN  IF t # <<>> /\ Head(t) = "-" THEN 0 - ToInt(Tail(t)) ELSE ToInt(t)

\* safe_float(s): float(s), 0.0 when float(s) raises
safe_float(s) == IF is_float(s) THEN FloatOf(s) ELSE 0

Max(a, b) == IF b > a THEN b ELSE a

(***************************************************************************)
(* datetime.now().strftime(...): a date is <<year, month, day>>            *)
(***************************************************************************)
StrfYmd(d) == FormatD(d[1], 4) \o FormatD(d[2], 2) \o FormatD(d[3], 2)

StrfYmdDashed(d) ==
    FormatD(d[1], 4) \o <<"-">> \o FormatD(d[2], 2) \o <<"-">> \o FormatD(d[3], 2)

(***************************************************************************)
(* Spool ID generation (lines 56-66)                                       *)
(***************************************************************************)
SpoolPrefix(date) == <<"S","P","-">> \o StrfYmd(date) \o <<"-">>

\* nums: the int of the tail of every id that starts with the prefix and
\* whose tail is all digits
SpoolNums(existing_ids, prefix) ==
    {ToInt(LastDashPart(existing_ids[i])) :
        i \in {j \in 1..Len(existing_ids) :
                 /\ StartsWith(existing_ids[j], prefix)
                 /\ IsDigit(LastDashPart(existing_ids[j]))}}

SetMax(S) == CHOOSE m \in S : \A n \in S : n <= m

\* gen_spool_id without the "+ 1" of line 65
gen_spool_id_no_increment(existing_ids, date) ==
    LET prefix == SpoolPrefix(date)
        nums == SpoolNums(existing_ids, prefix)
        next_num == IF nums # {} THEN SetMax(nums) ELSE 1
    IN  prefix \o FormatD(next_num, 4)

\* gen_spool_id with len(nums) + 1 for max(nums) + 1 in line 65
gen_spool_id_count(existing_ids, date) ==
    LET prefix == SpoolPrefix(date)
        nums == SpoolNums(existing_ids, prefix)
        next_num == IF nums # {} THEN Cardinality(nums) + 1 ELSE 1
    IN  prefix \o FormatD(next_num, 4)

gen_spool_id(existing_ids, date) ==
    LET prefix == SpoolPrefix(date)
        nums == SpoolNums(existing_ids, prefix)
        next_num == IF nums # {} THEN SetMax(nums) + 1 ELSE 1
    IN  prefix \o FormatD(next_num, 4)

(***************************************************************************)
(* State                                                                   *)
(***************************************************************************)
VARIABLES
    today,                \* datetime.now() as <<year, month, day>>
    fs,                   \* the CSV files: path -> [exists, lines]
    jobs_csv,             \* App.jobs_csv: path of the jobs file
    spools_csv,           \* App.spools_csv: path of the spools file
    spools_rows,          \* App.spools_rows: the rows read at the last (re)load
    jobs_tree,            \* rows of App.jobs_tree, in display order
    spools_tree,          \* rows of App.spools_tree, in display order
    spool_filter_var,     \* selection of the totals spool filter
    spool_filter_values,  \* App.spool_filter_combo["values"]
    total_potential_var,  \* the four texts of the totals panel
    total_consumed_var,
    total_lost_var,
    spool_remaining_var,
    dlg,                  \* the open modal dialog (JobDialog or SpoolDialog), or NoDialog
    messagebox,           \* title of the message box the last handler showed, "" if none
    callback              \* the data the last handler passed to on_ok, NoData if none

vars == <<today, fs, jobs_csv, spools_csv, spools_rows, jobs_tree, spools_tree,
          spool_filter_var, spool_filter_values, total_potential_var,
          total_consumed_var, total_lost_var, spool_remaining_var, dlg,
          messagebox, callback>>

NoDialog == [kind |-> "none"]

NoData == [kind |-> "none"]

S_All == <<"(","A","l","l",")">>

S_SelectASpool ==
    <<"(","s","e","l","e","c","t"," ","a"," ","s","p","o","o","l",")">>

S_1000 == <<"1","0","0","0">>

JobRow(date, name, potential, status, lost, spool_id) ==
    [c \in Range(JOB_COLS) |->
        CASE c = "Date" -> date
          [] c = "Name of Job" -> name
          [] c = "Grams Potential" -> potential
          [] c = "Status" -> status
          [] c = "Lost (g)" -> lost
          [] c = "Spool ID" -> spool_id]

SpoolRow(sid, material, other_material, color, other_color, size, notes, created) ==
    [c \in Range(SPOOL_COLS) |->
        CASE c = "Spool ID" -> sid
          [] c = "Material" -> material
          [] c = "Other Material" -> other_material
          [] c = "Color" -> color
          [] c = "Other Color" -> other_color
          [] c = "Spool Size (g)" -> size
          [] c = "Notes" -> notes
          [] c = "Created" -> created]

\* dict.get(key, default)
Get(r, key, default) == IF key \in DOMAIN r THEN r[key] ELSE default

(***************************************************************************)
(* CSV helpers (lines 20-47).  A file is the sequence of records the csv   *)
(* reader yields for its text, each record a sequence of fields; the       *)
(* first record holds the column names.  A blank line is the record <<>>.  *)
(***************************************************************************)
\* Python's None, which is no text
None == <<"None">>

\* A path at which there is no file
NoFile == [exists |-> FALSE, lines |-> <<>>]

File(lines) == [exists |-> TRUE, lines |-> lines]

NotBlankLine(line) == line # <<>>

\* reader.fieldnames or []: the first record, blank or not
Fieldnames(file) == IF file.lines = <<>> THEN <<>> ELSE Head(file.lines)

\* csv.DictReader.__next__: dict(zip(fieldnames, row)), then restval (None)
\* under every name of fieldnames[len(row):]; the fields past the last name
\* go under the key None, which no caller reads
DictReaderRow(fieldnames, row) ==
    [name \in Range(fieldnames) |->
        LET last == SetMax({i \in 1..Len(fieldnames) : fieldnames[i] = name})
        IN  IF last <= Len(row) THEN row[last] ELSE None]

\* list(csv.DictReader(f)): blank records after the first are skipped
DictReader(file) ==
    IF file.lines = <<>> THEN <<>>
    ELSE LET rows == SelectSeq(Tail(file.lines), NotBlankLine)
         IN  [i \in 1..Len(rows) |-> DictReaderRow(Head(file.lines), rows[i])]

\* ensure_csv without the test of line 22
ensure_csv_overwrite(file, header) == File(<<header>>)

\* ensure_csv: the file at the path once the call has returned
ensure_csv(file, header) == IF file.exists THEN file ELSE File(<<header>>)

\* read_rows: lines 33-34 and 37-38 put "" where r.get(col, "") has put it
\* already
read_rows(file, header) ==
    LET rows == DictReader(ensure_csv(file, header))
    IN  [i \in 1..Len(rows) |->
            [col \in Range(header) |-> Get(rows[i], col, <<>>)]]

\* The csv writer writes None as the empty field
CsvField(v) == IF v = None THEN <<>> ELSE v

write_rows(header, rows) ==
    File(<<header>> \o
         [i \in 1..Len(rows) |->
             [k \in 1..Len(header) |-> CsvField(Get(rows[i], header[k], <<>>))]])

\* Treeview.insert(values=...): a value that is no text is shown as str(value)
TreeValues(rows) ==
    [i \in 1..Len(rows) |->
        [c \in DOMAIN rows[i] |->
            IF rows[i][c] = None THEN <<"N","o","n","e">> ELSE rows[i][c]]]

(***************************************************************************)
(* Totals and filter (lines 316-367)                                       *)
(***************************************************************************)
\* ["(All)"] + the non-empty Spool IDs of the cached rows, in order
RECURSIVE NonEmptyIds(_)
NonEmptyIds(rows) ==
    IF rows = <<>> THEN <<>>
    ELSE (IF Get(Head(rows), "Spool ID", <<>>) \notin {<<>>, None}
          THEN <<Get(Head(rows), "Spool ID", <<>>)>> ELSE <<>>)
         \o NonEmptyIds(Tail(rows))

FilterValues(rows) == <<S_All>> \o NonEmptyIds(rows)

\* refresh_spool_filter: the combo's values and the selection it leaves
FilterAfterRefresh(rows, cur) == IF cur \in Range(FilterValues(rows)) THEN cur ELSE S_All

passes(r, filter_sid) ==
    IF filter_sid = S_All THEN TRUE ELSE Get(r, "Spool ID", <<>>) = filter_sid

\* The loop with the full potential of a failed job counted as consumed
RECURSIVE TotalsLoopFailedFull(_, _, _)
TotalsLoopFailedFull(rows, filter_sid, acc) ==
    IF rows = <<>> THEN acc
    ELSE LET r == Head(rows)
             potential == safe_float(Get(r, "Grams Potential", <<>>))
             status == Lower(Strip(Get(r, "Status", <<>>)))
             lost == safe_float(Get(r, "Lost (g)", <<>>))
             next == IF ~passes(r, filter_sid) THEN acc
                     ELSE IF status = S_success
                          THEN <<acc[1] + potential, acc[2], acc[3] + potential>>
                     ELSE IF status = S_failed
                          THEN <<acc[1] + potential, acc[2] + lost, acc[3] + potential>>
                     ELSE <<acc[1] + potential, acc[2], acc[3]>>
         IN  TotalsLoopFailedFull(Tail(rows), filter_sid, next)

\* the loop of lines 340-351: acc is <<total_potential, total_lost, total_consumed>>
RECURSIVE TotalsLoop(_, _, _)
TotalsLoop(rows, filter_sid, acc) ==
    IF rows = <<>> THEN acc
    ELSE LET r == Head(rows)
             potential == safe_float(Get(r, "Grams Potential", <<>>))
             status == Lower(Strip(Get(r, "Status", <<>>)))
             lost == safe_float(Get(r, "Lost (g)", <<>>))
             next == IF ~passes(r, filter_sid) THEN acc
                     ELSE IF status = S_success
                          THEN <<acc[1] + potential, acc[2], acc[3] + potential>>
                     ELSE IF status = S_failed
                          THEN <<acc[1] + potential, acc[2] + lost, acc[3] + lost>>
                     ELSE <<acc[1] + potential, acc[2], acc[3]>>
         IN  TotalsLoop(Tail(rows), filter_sid, next)

\* lines 359-363: the size of the first spool whose id is the filter, else 0.0
RECURSIVE SizeOfFirst(_, _)
SizeOfFirst(spools, filter_sid) ==
    IF spools = <<>> THEN 0
    ELSE IF Get(Head(spools), "Spool ID", <<>>) = filter_sid
         THEN safe_float(Get(Head(spools), "Spool Size (g)", <<>>))
         ELSE SizeOfFirst(Tail(spools), filter_sid)

\* line 364 without the max(..., 0.0)
RemainingUnclamped(spools, filter_sid, total_consumed) ==
    SizeOfFirst(spools, filter_sid) - total_consumed

Remaining(spools, filter_sid, total_consumed) ==
    Max(SizeOfFirst(spools, filter_sid) - total_consumed, 0)

\* update_totals: the four texts it sets
update_totals(jobs, spools, filter_sid) ==
    LET acc == TotalsLoop(jobs, filter_sid, <<0, 0, 0>>)
    IN  [total_potential |-> Format2f(acc[1]),
         total_lost |-> Format2f(acc[2]),
         total_consumed |-> Format2f(acc[3]),
         spool_remaining |->
             IF filter_sid # S_All
             THEN Format2f(Remaining(spools, filter_sid, acc[3]))
             ELSE S_SelectASpool]

\* update_totals run on the tables and filter of the next state
UpdateTotals ==
    LET t == update_totals(jobs_tree', spools_tree', spool_filter_var')
    IN  /\ total_potential_var' = t.total_potential
        /\ total_lost_var' = t.total_lost
        /\ total_consumed_var' = t.total_consumed
        /\ spool_remaining_var' = t.spool_remaining

TotalsUnchanged ==
    UNCHANGED <<total_potential_var, total_lost_var, total_consumed_var,
                spool_remaining_var>>

\* refresh_spool_filter run on the cached rows of the next state
RefreshSpoolFilter ==
    /\ spool_filter_values' = FilterValues(spools_rows')
    /\ spool_filter_var' = FilterAfterRefresh(spools_rows', spool_filter_var)

(***************************************************************************)
(* App.__init__ (lines 70-174): the state after construction               *)
(***************************************************************************)
InitApp(date, files, jobs_path, spools_path) ==
    /\ today = date
    /\ fs = [files EXCEPT ![jobs_path] = ensure_csv(@, JOB_COLS),
                          ![spools_path] = ensure_csv(@, SPOOL_COLS)]
    /\ jobs_csv = jobs_path
    /\ spools_csv = spools_path
    /\ spools_rows = read_rows(files[spools_path], SPOOL_COLS)
    /\ jobs_tree = TreeValues(read_rows(files[jobs_path], JOB_COLS))
    /\ spools_tree = TreeValues(read_rows(files[spools_path], SPOOL_COLS))
    /\ spool_filter_var = S_All
    /\ spool_filter_values = FilterValues(read_rows(files[spools_path], SPOOL_COLS))
    /\ LET t == update_totals(TreeValues(read_rows(files[jobs_path], JOB_COLS)),
                              TreeValues(read_rows(files[spools_path], SPOOL_COLS)),
                              S_All)
       IN  /\ total_potential_var = t.total_potential
           /\ total_lost_var = t.total_lost
           /\ total_consumed_var = t.total_consumed
           /\ spool_remaining_var = t.spool_remaining
    /\ dlg = NoDialog
    /\ messagebox = ""
    /\ callback = NoData

(***************************************************************************)
(* Main window: CSV operations and the jobs tab (lines 177-250)            *)
(***************************************************************************)
Idle == dlg = NoDialog

RemoveAt(seq, i) == SubSeq(seq, 1, i - 1) \o SubSeq(seq, i + 1, Len(seq))

\* "Reload" of the jobs tab: reload_jobs alone
reload_jobs ==
    /\ Idle
    /\ fs' = [fs EXCEPT ![jobs_csv] = ensure_csv(@, JOB_COLS)]
    /\ jobs_tree' = TreeValues(read_rows(fs[jobs_csv], JOB_COLS))
    /\ messagebox' = ""
    /\ callback' = NoData
    /\ TotalsUnchanged
    /\ UNCHANGED <<today, jobs_csv, spools_csv, spools_rows, spools_tree,
                   spool_filter_var, spool_filter_values, dlg>>

save_jobs ==
    /\ Idle
    /\ fs' = [fs EXCEPT ![jobs_csv] = write_rows(JOB_COLS, jobs_tree)]
    /\ messagebox' = "Jobs CSV saved."
    /\ callback' = NoData
    /\ TotalsUnchanged
    /\ UNCHANGED <<today, jobs_csv, spools_csv, spools_rows, jobs_tree, spools_tree,
                   spool_filter_var, spool_filter_values, dlg>>

choose_jobs_csv(path) ==
    /\ Idle
    /\ jobs_csv' = path
    /\ fs' = [fs EXCEPT ![path] = ensure_csv(@, JOB_COLS)]
    /\ jobs_tree' = TreeValues(read_rows(fs[path], JOB_COLS))
    /\ messagebox' = ""
    /\ callback' = NoData
    /\ UNCHANGED <<today, spools_csv, spools_rows, spools_tree,
                   spool_filter_var, spool_filter_values, dlg>>
    /\ UpdateTotals

\* JobDialog.__init__ (lines 371-410) as add_job opens it
add_job(max_jobs) ==
    /\ Idle
    /\ Len(jobs_tree) < max_jobs
    /\ dlg' = [kind |-> "job", iid |-> 0,
               fields |-> JobRow(StrfYmdDashed(today), <<>>, <<>>, S_pending, <<>>, <<>>),
               spool_ids |-> <<<<>>>> \o NonEmptyIds(spools_rows)]
    /\ messagebox' = ""
    /\ callback' = NoData
    /\ TotalsUnchanged
    /\ UNCHANGED <<today, fs, jobs_csv, spools_csv, spools_rows, jobs_tree,
                   spools_tree, spool_filter_var, spool_filter_values>>

\* edit_job with the row iid selected
edit_job(iid) ==
    /\ Idle
    /\ iid \in 1..Len(jobs_tree)
    /\ dlg' = [kind |-> "job", iid |-> iid,
               fields |-> jobs_tree[iid],
               spool_ids |-> <<<<>>>> \o NonEmptyIds(spools_rows)]
    /\ messagebox' = ""
    /\ callback' = NoData
    /\ TotalsUnchanged
    /\ UNCHANGED <<today, fs, jobs_csv, spools_csv, spools_rows, jobs_tree,
                   spools_tree, spool_filter_var, spool_filter_values>>

delete_job(iid) ==
    /\ Idle
    /\ iid \in 1..Len(jobs_tree)
    /\ jobs_tree' = RemoveAt(jobs_tree, iid)
    /\ messagebox' = ""
    /\ callback' = NoData
    /\ UNCHANGED <<today, fs, jobs_csv, spools_csv, spools_rows, spools_tree,
                   spool_filter_var, spool_filter_values, dlg>>
    /\ UpdateTotals

(***************************************************************************)
(* JobDialog (lines 370-461)                                               *)
(***************************************************************************)
\* The user fills the form: the four entries take the texts <<date, name,
\* potential, lost>> of a form, the two read-only comboboxes one of their values.
JobDialogType(forms, statuses) ==
    /\ dlg.kind = "job"
    /\ statuses \subseteq Range(STATUSES)
    /\ \E form \in forms,
          status \in statuses \cup {dlg.fields["Status"]},
          spool \in Range(dlg.spool_ids) \cup {dlg.fields["Spool ID"]} :
          dlg' = [dlg EXCEPT !.fields =
                     JobRow(form[1], form[2], form[3], status, form[4], spool)]
    /\ messagebox' = ""
    /\ callback' = NoData
    /\ TotalsUnchanged
    /\ UNCHANGED <<today, fs, jobs_csv, spools_csv, spools_rows, jobs_tree,
                   spools_tree, spool_filter_var, spool_filter_values>>

\* JobDialog.ok with the status check of line 439 placed before the
\* potential check of line 436
JobOkErrorStatusFirst(f) ==
    LET date == Strip(f["Date"])
        name == Strip(f["Name of Job"])
        potential == Strip(f["Grams Potential"])
        status == Lower(Strip(f["Status"]))
        lost == Strip(f["Lost (g)"])
    IN  IF date = <<>> \/ name = <<>>
        THEN "Date and Name are required."
        ELSE IF status \notin Range(STATUSES)
        THEN "Status must be one of: init, success, failed, pending"
        ELSE IF potential # <<>> /\ ~is_float(potential)
        THEN "Grams Potential must be a number."
        ELSE IF status = S_failed
        THEN (IF lost = <<>> \/ ~is_float(lost)
              THEN "Please enter Lost (g) for failed prints."
              ELSE "")
        ELSE (IF lost # <<>> /\ ~is_float(lost)
              THEN "Lost (g) must be a number or blank."
              ELSE "")

\* JobDialog.ok, lines 426-449: the text of the error box, "" when all checks pass
JobOkError(f) ==
    LET date == Strip(f["Date"])
        name == Strip(f["Name of Job"])
        potential == Strip(f["Grams Potential"])
        status == Lower(Strip(f["Status"]))
        lost == Strip(f["Lost (g)"])
    IN  IF date = <<>> \/ name = <<>>
        THEN "Date and Name are required."
        ELSE IF potential # <<>> /\ ~is_float(potential)
        THEN "Grams Potential must be a number."
        ELSE IF status \notin Range(STATUSES)
        THEN "Status must be one of: init, success, failed, pending"
        ELSE IF status = S_failed
        THEN (IF lost = <<>> \/ ~is_float(lost)
              THEN "Please enter Lost (g) for failed prints."
              ELSE "")
        ELSE (IF lost # <<>> /\ ~is_float(lost)
              THEN "Lost (g) must be a number or blank."
              ELSE "")

\* JobDialog.ok storing the lost grams whatever the status (line 456
\* without its condition)
JobOkDataKeepLost(f) ==
    JobRow(Strip(f["Date"]), Strip(f["Name of Job"]), Strip(f["Grams Potential"]),
           Lower(Strip(f["Status"])), Strip(f["Lost (g)"]), Strip(f["Spool ID"]))

\* JobDialog.ok, lines 451-458: the record handed to on_ok
JobOkData(f) ==
    LET status == Lower(Strip(f["Status"]))
    IN  JobRow(Strip(f["Date"]), Strip(f["Name of Job"]), Strip(f["Grams Potential"]),
               status,
               IF status = S_failed THEN Strip(f["Lost (g)"]) ELSE <<>>,
               Strip(f["Spool ID"]))

\* _add_job_row / _edit_job_row: the row as the Treeview holds it
JobValues(data) == [c \in Range(JOB_COLS) |-> Get(data, c, <<>>)]

JobDialogOk ==
    /\ dlg.kind = "job"
    /\ UNCHANGED <<today, fs, jobs_csv, spools_csv, spools_rows, spools_tree,
                   spool_filter_var, spool_filter_values>>
    /\ IF JobOkError(dlg.fields) # ""
       THEN /\ messagebox' = JobOkError(dlg.fields)
            /\ callback' = NoData
            /\ TotalsUnchanged
            /\ UNCHANGED <<jobs_tree, dlg>>
       ELSE /\ jobs_tree' = IF dlg.iid = 0
                            THEN Append(jobs_tree, JobValues(JobOkData(dlg.fields)))
                            ELSE [jobs_tree EXCEPT ![dlg.iid] = JobValues(JobOkData(dlg.fields))]
            /\ callback' = [kind |-> "job", data |-> JobOkData(dlg.fields)]
            /\ messagebox' = ""
            /\ dlg' = NoDialog
            /\ UpdateTotals

JobDialogCancel ==
    /\ dlg.kind = "job"
    /\ dlg' = NoDialog
    /\ messagebox' = ""
    /\ callback' = NoData
    /\ TotalsUnchanged
    /\ UNCHANGED <<today, fs, jobs_csv, spools_csv, spools_rows, jobs_tree,
                   spools_tree, spool_filter_var, spool_filter_values>>

(***************************************************************************)
(* Main window: the spools tab (lines 185-192, 253-313)                    *)
(***************************************************************************)
\* "Reload" of the spools tab: reload_spools, which ends in refresh_spool_filter
reload_spools ==
    /\ Idle
    /\ fs' = [fs EXCEPT ![spools_csv] = ensure_csv(@, SPOOL_COLS)]
    /\ spools_rows' = read_rows(fs[spools_csv], SPOOL_COLS)
    /\ spools_tree' = TreeValues(read_rows(fs[spools_csv], SPOOL_COLS))
    /\ RefreshSpoolFilter
    /\ messagebox' = ""
    /\ callback' = NoData
    /\ TotalsUnchanged
    /\ UNCHANGED <<today, jobs_csv, spools_csv, jobs_tree, dlg>>

save_spools ==
    /\ Idle
    /\ fs' = [fs EXCEPT ![spools_csv] = write_rows(SPOOL_COLS, spools_tree)]
    /\ messagebox' = "Spools CSV saved."
    /\ callback' = NoData
    /\ UNCHANGED <<today, jobs_csv, spools_csv, spools_rows, jobs_tree, spools_tree, dlg>>
    /\ RefreshSpoolFilter
    /\ UpdateTotals

choose_spools_csv(path) ==
    /\ Idle
    /\ spools_csv' = path
    /\ fs' = [fs EXCEPT ![path] = ensure_csv(@, SPOOL_COLS)]
    /\ spools_rows' = read_rows(fs[path], SPOOL_COLS)
    /\ spools_tree' = TreeValues(read_rows(fs[path], SPOOL_COLS))
    /\ RefreshSpoolFilter
    /\ messagebox' = ""
    /\ callback' = NoData
    /\ UNCHANGED <<today, jobs_csv, jobs_tree, dlg>>
    /\ UpdateTotals

\* "Export Jobs As..." / "Export Spools As..." with the path the save dialog
\* returned (no path: the handler returns at once)
export_csv_as(kind, path) ==
    /\ Idle
    /\ path \in DOMAIN fs
    /\ fs' = [fs EXCEPT ![path] =
                 IF kind = "jobs" THEN write_rows(JOB_COLS, jobs_tree)
                 ELSE write_rows(SPOOL_COLS, spools_tree)]
    /\ messagebox' = "Saved to: " \o path
    /\ callback' = NoData
    /\ TotalsUnchanged
    /\ UNCHANGED <<today, jobs_csv, spools_csv, spools_rows, jobs_tree, spools_tree,
                   spool_filter_var, spool_filter_values, dlg>>

\* [r.get("Spool ID","") for r in self.spools_table_to_rows()]
TreeIds(tree) == [i \in 1..Len(tree) |-> Get(tree[i], "Spool ID", <<>>)]

\* SpoolDialog.__init__ ends in on_material_change() and on_color_change(),
\* which empty the "Other" text of a list whose selection is not "Other"
SpoolDialogInit(initial) ==
    [initial EXCEPT
        !["Other Material"] = IF initial["Material"] = S_Other THEN @ ELSE <<>>,
        !["Other Color"] = IF initial["Color"] = S_Other THEN @ ELSE <<>>]

\* The sequence number the next generated id would carry
NextNum(existing_ids, date) ==
    LET nums == SpoolNums(existing_ids, SpoolPrefix(date))
    IN  IF nums # {} THEN SetMax(nums) + 1 ELSE 1

add_spool(max_spools, max_seq) ==
    /\ Idle
    /\ Len(spools_tree) < max_spools
    /\ NextNum(TreeIds(spools_tree), today) <= max_seq
    /\ dlg' = [kind |-> "spool", iid |-> 0,
               fields |-> SpoolDialogInit(
                   SpoolRow(gen_spool_id(TreeIds(spools_tree), today), S_PLA, <<>>,
                            S_Black, <<>>, S_1000, <<>>, StrfYmdDashed(today)))]
    /\ messagebox' = ""
    /\ callback' = NoData
    /\ TotalsUnchanged
    /\ UNCHANGED <<today, fs, jobs_csv, spools_csv, spools_rows, jobs_tree,
                   spools_tree, spool_filter_var, spool_filter_values>>

edit_spool(iid) ==
    /\ Idle
    /\ iid \in 1..Len(spools_tree)
    /\ dlg' = [kind |-> "spool", iid |-> iid,
               fields |-> SpoolDialogInit(spools_tree[iid])]
    /\ messagebox' = ""
    /\ callback' = NoData
    /\ TotalsUnchanged
    /\ UNCHANGED <<today, fs, jobs_csv, spools_csv, spools_rows, jobs_tree,
                   spools_tree, spool_filter_var, spool_filter_values>>

delete_spool(iid) ==
    /\ Idle
    /\ iid \in 1..Len(spools_tree)
    /\ spools_tree' = RemoveAt(spools_tree, iid)
    /\ messagebox' = ""
    /\ callback' = NoData
    /\ UNCHANGED <<today, fs, jobs_csv, spools_csv, spools_rows, jobs_tree, dlg>>
    /\ RefreshSpoolFilter
    /\ UpdateTotals

\* <<ComboboxSelected>> of the totals filter: update_totals
select_spool_filter(sid) ==
    /\ Idle
    /\ sid \in Range(spool_filter_values)
    /\ spool_filter_var' = sid
    /\ messagebox' = ""
    /\ callback' = NoData
    /\ UNCHANGED <<today, fs, jobs_csv, spools_csv, spools_rows, jobs_tree,
                   spools_tree, spool_filter_values, dlg>>
    /\ UpdateTotals

(***************************************************************************)
(* SpoolDialog (lines 463-600)                                             *)
(***************************************************************************)
DialogUnchangedRest ==
    /\ messagebox' = ""
    /\ callback' = NoData
    /\ TotalsUnchanged
    /\ UNCHANGED <<today, fs, jobs_csv, spools_csv, spools_rows, jobs_tree,
                   spools_tree, spool_filter_var, spool_filter_values>>

\* The user types into one of the entries.  The two "Other" entries take
\* text only while their list shows "Other" (on_material_change /
\* on_color_change disable them otherwise).
SpoolDialogType(ids, sizes, others) ==
    /\ dlg.kind = "spool"
    /\ \/ \E sid \in ids :
             dlg' = [dlg EXCEPT !.fields = [@ EXCEPT !["Spool ID"] = sid]]
       \/ \E size \in sizes :
             dlg' = [dlg EXCEPT !.fields = [@ EXCEPT !["Spool Size (g)"] = size]]
       \/ \E other_mat \in others :
             /\ dlg.fields["Material"] = S_Other
             /\ dlg' = [dlg EXCEPT !.fields = [@ EXCEPT !["Other Material"] = other_mat]]
       \/ \E other \in others :
             /\ dlg.fields["Color"] = S_Other
             /\ dlg' = [dlg EXCEPT !.fields = [@ EXCEPT !["Other Color"] = other]]
    /\ DialogUnchangedRest

\* on_material_change after a selection in the material list
on_material_change(material) ==
    /\ dlg.kind = "spool"
    /\ material \in Range(MATERIALS)
    /\ dlg' = [dlg EXCEPT !.fields = [@ EXCEPT
                  !["Material"] = material,
                  !["Other Material"] = IF material = S_Other THEN @ ELSE <<>>]]
    /\ DialogUnchangedRest

\* on_color_change after a selection in the colour list
on_color_change(color) ==
    /\ dlg.kind = "spool"
    /\ color \in Range(COLORS)
    /\ dlg' = [dlg EXCEPT !.fields = [@ EXCEPT
                  !["Color"] = color,
                  !["Other Color"] = IF color = S_Other THEN @ ELSE <<>>]]
    /\ DialogUnchangedRest

\* "Auto-generate"
auto_id(max_seq) ==
    /\ dlg.kind = "spool"
    /\ NextNum(TreeIds(spools_tree), today) <= max_seq
    /\ dlg' = [dlg EXCEPT !.fields = [@ EXCEPT
                  !["Spool ID"] = gen_spool_id(TreeIds(spools_tree), today)]]
    /\ DialogUnchangedRest

\* SpoolDialog.ok without the check of lines 581-583
SpoolOkErrorNoMaterialCheck(f) ==
    LET sid == Strip(f["Spool ID"])
        col == Strip(f["Color"])
        other == Strip(f["Other Color"])
        size == Strip(f["Spool Size (g)"])
    IN  IF sid = <<>>
        THEN "Spool ID is required."
        ELSE IF size = <<>> \/ ~is_float(size)
        THEN "Spool Size (g) must be a number."
        ELSE IF col = S_Other /\ other = <<>>
        THEN "Please enter Other Color."
        ELSE ""

\* SpoolDialog.ok, lines 566-586: the text of the error box, "" when all checks pass
SpoolOkError(f) ==
    LET sid == Strip(f["Spool ID"])
        mat == Strip(f["Material"])
        other_mat == Strip(f["Other Material"])
        col == Strip(f["Color"])
        other == Strip(f["Other Color"])
        size == Strip(f["Spool Size (g)"])
    IN  IF sid = <<>>
        THEN "Spool ID is required."
        ELSE IF size = <<>> \/ ~is_float(size)
        THEN "Spool Size (g) must be a number."
        ELSE IF mat = S_Other /\ other_mat = <<>>
        THEN "Please enter Other Material."
        ELSE IF col = S_Other /\ other = <<>>
        THEN "Please enter Other Color."
        ELSE ""

\* SpoolDialog.ok, lines 588-597: the record handed to on_ok
SpoolOkData(f) ==
    LET mat == Strip(f["Material"])
        col == Strip(f["Color"])
    IN  SpoolRow(Strip(f["Spool ID"]), mat,
                 IF mat = S_Other THEN Strip(f["Other Material"]) ELSE <<>>,
                 col,
                 IF col = S_Other THEN Strip(f["Other Color"]) ELSE <<>>,
                 Strip(f["Spool Size (g)"]), Strip(f["Notes"]), Strip(f["Created"]))

\* _add_spool_row / _edit_spool_row: the row as the Treeview holds it
SpoolValues(data) == [c \in Range(SPOOL_COLS) |-> Get(data, c, <<>>)]

SpoolDialogOk ==
    /\ dlg.kind = "spool"
    /\ UNCHANGED <<today, fs, jobs_csv, spools_csv, spools_rows, jobs_tree>>
    /\ IF SpoolOkError(dlg.fields) # ""
       THEN /\ messagebox' = SpoolOkError(dlg.fields)
            /\ callback' = NoData
            /\ TotalsUnchanged
            /\ UNCHANGED <<spools_tree, spool_filter_var, spool_filter_values, dlg>>
       ELSE /\ spools_tree' = IF dlg.iid = 0
                              THEN Append(spools_tree, SpoolValues(SpoolOkData(dlg.fields)))
                              ELSE [spools_tree EXCEPT
                                       ![dlg.iid] = SpoolValues(SpoolOkData(dlg.fields))]
            /\ callback' = [kind |-> "spool", data |-> SpoolOkData(dlg.fields)]
            /\ messagebox' = ""
            /\ dlg' = NoDialog
            /\ RefreshSpoolFilter
            /\ UpdateTotals

SpoolDialogCancel ==
    /\ dlg.kind = "spool"
    /\ dlg' = NoDialog
    /\ DialogUnchangedRest

(***************************************************************************)
(* The application: every handler of the main window and of the dialogs,   *)
(* over two files of each kind.                                            *)
(***************************************************************************)
MaxJobs == 1

MaxSpools == 1

\* The largest sequence number the model lets gen_spool_id hand out
MaxSeq == 2

Today0 == <<2024, 1, 1>>

JobPaths == {"filament_log.csv", "other_jobs.csv"}

SpoolPaths == {"filament_spools.csv", "other_spools.csv"}

S_d == <<"2","0","2","4","-","0","1","-","0","1">>
S_n == <<"n">>
S_x == <<"x">>
S_7 == <<"7">>
S_3 == <<"3">>
S_10 == <<"1","0">>
S_A == <<"A">>
S_SP1 == SpoolPrefix(Today0) \o <<"0","0","0","1">>

\* The files on disk when the program starts.  other_jobs.csv is a legacy
\* file without the "Spool ID" column.
Files0 ==
    [p \in JobPaths \cup SpoolPaths |->
        CASE p = "filament_log.csv" ->
                 write_rows(JOB_COLS, <<JobRow(S_d, S_n, S_7, S_success, <<>>, S_SP1)>>)
          [] p = "other_jobs.csv" ->
                 write_rows(SubSeq(JOB_COLS, 1, 5),
                            <<JobRow(S_d, S_n, S_7, <<"F","a","i","l","e","d">>, S_3, <<>>)>>)
          [] p = "filament_spools.csv" ->
                 write_rows(SPOOL_COLS,
                            <<SpoolRow(S_SP1, S_PLA, <<>>, S_Black, <<>>, S_10, <<>>, S_d)>>)
          [] p = "other_spools.csv" ->
                 write_rows(SPOOL_COLS,
                            <<SpoolRow(S_A, S_Other, S_x, S_Black, <<>>, S_x, <<>>, S_d)>>)]

Init == InitApp(Today0, Files0, "filament_log.csv", "filament_spools.csv")

AppJobForms == {<<S_d, S_n, S_7, S_3>>}

AppJobType == JobDialogType(AppJobForms, {S_success, S_failed})

AppSpoolType == SpoolDialogType({S_A}, {}, {S_x})

\* The jobs tab and the totals filter
NextJobsTab ==
    \/ reload_jobs
    \/ save_jobs
    \/ \E path \in JobPaths : choose_jobs_csv(path)
    \/ add_job(MaxJobs)
    \/ \E iid \in 1..MaxJobs : edit_job(iid)
    \/ \E iid \in 1..MaxJobs : delete_job(iid)
    \/ \E sid \in Range(spool_filter_values) : select_spool_filter(sid)
    \/ AppJobType
    \/ JobDialogOk
    \/ JobDialogCancel

SpecJobsTab == Init /\ [][NextJobsTab]_vars

\* The spools tab and the totals filter
NextSpoolsTab ==
    \/ reload_spools
    \/ save_spools
    \/ \E path \in SpoolPaths : choose_spools_csv(path)
    \/ add_spool(MaxSpools, MaxSeq)
    \/ \E iid \in 1..MaxSpools : edit_spool(iid)
    \/ \E iid \in 1..MaxSpools : delete_spool(iid)
    \/ \E sid \in Range(spool_filter_values) : select_spool_filter(sid)
    \/ AppSpoolType
    \/ auto_id(MaxSeq)
    \/ SpoolDialogOk
    \/ SpoolDialogCancel

SpecSpoolsTab == Init /\ [][NextSpoolsTab]_vars

Next == NextJobsTab \/ NextSpoolsTab

Spec == Init /\ [][Next]_vars

(***************************************************************************)
(* The spool id generator on its own: the "Add" button and "Auto-generate" *)
(* of the spools tab over spool tables with every mix of ids.              *)
(***************************************************************************)
MaxIds == 3

\* Larger than any suffix of GenIds: the generator is never held back here
GenMaxSeq == 10001

Today1 == <<2024, 12, 31>>

GenDates == {Today0, Today1}

GenTails ==
    {<<"0","0","0","1">>, <<"0","0","0","3">>, <<"2">>, <<"x","1">>,
     <<"a","-","0","0","0","5">>, <<"9","9","9","9">>}

\* Ids of both dates with each tail, and two ids of another shape
GenIds ==
    {SpoolPrefix(d) \o t : d \in {Today0}, t \in GenTails}
    \cup {SpoolPrefix(Today1) \o <<"0","0","0","7">>, S_A}

RECURSIVE SeqsUpTo(_, _)
SeqsUpTo(S, n) ==
    IF n = 0 THEN {<<>>}
    ELSE SeqsUpTo(S, n - 1)
         \cup {Append(q, x) : q \in {r \in SeqsUpTo(S, n - 1) : Len(r) = n - 1}, x \in S}

GenSpoolFile(ids) ==
    write_rows(SPOOL_COLS,
               [i \in 1..Len(ids) |->
                   SpoolRow(ids[i], S_PLA, <<>>, S_Black, <<>>, S_10, <<>>, S_d)])

InitGen ==
    \E date \in GenDates, ids \in SeqsUpTo(GenIds, MaxIds) :
        InitApp(date,
                [p \in {"filament_log.csv", "filament_spools.csv"} |->
                    IF p = "filament_log.csv" THEN write_rows(JOB_COLS, <<>>)
                    ELSE GenSpoolFile(ids)],
                "filament_log.csv", "filament_spools.csv")

NextGen ==
    \/ add_spool(MaxIds + 1, GenMaxSeq)
    \/ \E iid \in 1..MaxIds : edit_spool(iid)
    \/ auto_id(GenMaxSeq)
    \/ SpoolDialogCancel

SpecGen == InitGen /\ [][NextGen]_vars

\* The id shown by a dialog that add_spool opened is the generated one: no
\* action of SpecGen types into the dialog.
AddDialogOpen == dlg.kind = "spool" /\ dlg.iid = 0

GeneratedId == dlg.fields["Spool ID"]

ExistingIds == Range(TreeIds(spools_tree))

\* The text between "SP-" and the next "-"
DateSegment(id) ==
    LET rest == SubSeq(id, 4, Len(id))
        dash == CHOOSE i \in 1..Len(rest) :
                    rest[i] = "-" /\ \A j \in 1..(i - 1) : rest[j] # "-"
    IN  SubSeq(rest, 1, dash - 1)

IsYmdOf(seg, date) ==
    /\ Len(seg) = 8
    /\ IsDigit(seg)
    /\ ToInt(SubSeq(seg, 1, 4)) = date[1]
    /\ ToInt(SubSeq(seg, 5, 6)) = date[2]
    /\ ToInt(SubSeq(seg, 7, 8)) = date[3]

\* C1: the id gen_spool_id returns is not one of the existing ids, and its
\* date segment, the text between "SP-" and the following "-", is today's
\* date as YYYYMMDD.
C1_FreshIdOfToday ==
    AddDialogOpen =>
        /\ GeneratedId \notin ExistingIds
        /\ SubSeq(GeneratedId, 1, 3) = <<"S","P","-">>
        /\ \E i \in 4..Len(GeneratedId) : GeneratedId[i] = "-"
        /\ IsYmdOf(DateSegment(GeneratedId), today)

\* Ids of today are in the table, one of them the largest of the day, and
\* the add dialog shows a generated id.
C1_Witness ==
    /\ AddDialogOpen
    /\ Len(spools_tree) = 3
    /\ \E id \in ExistingIds : StartsWith(id, SpoolPrefix(today))
    /\ \E id \in ExistingIds : ~StartsWith(id, SpoolPrefix(today))

\* The existing ids that count: they start with today's prefix and the part
\* after their last "-" is all digits
CountingIds ==
    {id \in ExistingIds :
        /\ Len(id) >= 12
        /\ \A i \in 1..12 : id[i] = SpoolPrefix(today)[i]
        /\ IsDigit(LastDashPart(id))}

MaxSuffix == SetMax({ToInt(LastDashPart(id)) : id \in CountingIds})

\* s is n written in decimal, padded with zeros on the left up to 4 digits
IsPadded4(s, n) ==
    /\ IsDigit(s)
    /\ ToInt(s) = n
    /\ Len(s) >= 4
    /\ Len(s) > 4 => s[1] # "0"

\* C2: the generated id is today's prefix followed by M+1 zero-padded to 4
\* digits, M the largest numeric suffix among the ids that start with the
\* prefix and end in digits after the last "-"; other ids do not change the
\* result, gaps are not reused, and without a counting id the suffix is 0001.
C2_NextAfterMax ==
    AddDialogOpen =>
        /\ StartsWith(GeneratedId, SpoolPrefix(today))
        /\ IsPadded4(SubSeq(GeneratedId, 13, Len(GeneratedId)),
                     IF CountingIds = {} THEN 1 ELSE MaxSuffix + 1)
        /\ CountingIds = {} => SubSeq(GeneratedId, 13, Len(GeneratedId)) = <<"0","0","0","1">>

\* 0001 and 0003 of today are present, with an id of another date: 0004 comes
C2_Witness ==
    /\ AddDialogOpen
    /\ today = Today0
    /\ SpoolPrefix(Today0) \o <<"0","0","0","1">> \in ExistingIds
    /\ SpoolPrefix(Today0) \o <<"0","0","0","3">> \in ExistingIds
    /\ SpoolPrefix(Today1) \o <<"0","0","0","7">> \in ExistingIds
    /\ GeneratedId = SpoolPrefix(Today0) \o <<"0","0","0","4">>

(***************************************************************************)
(* The totals panel on its own: the program started on jobs and spools     *)
(* files of every mix of rows, then filter selections and deletions, each  *)
(* of which ends in update_totals.                                         *)
(***************************************************************************)
MaxTotalsJobs == 2

S_Success_ == <<" ","S","u","c","c","e","s","s">>

S_B == <<"B">>

S_day == <<"d">>

\* <<potential, status, lost, spool>> of the rows a jobs file may hold: the
\* four statuses, a status in another spelling, fields that are no numbers
TotalsJobFields ==
    {<<S_7, S_success, <<>>, S_A>>,
     <<S_7, S_success, <<>>, S_B>>,
     <<S_x, S_success, S_3, S_A>>,
     <<S_7, S_failed, S_3, S_A>>,
     <<S_7, S_failed, S_x, S_A>>,
     <<S_7, S_failed, S_3, <<>>>>,
     <<S_7, S_pending, S_3, S_A>>,
     <<S_7, S_init, <<>>, S_A>>,
     <<S_7, S_Success_, <<>>, S_A>>}

TotalsJobRows == {JobRow(S_day, S_n, f[1], f[2], f[3], f[4]) : f \in TotalsJobFields}

\* Two spools of which one has a size that is no number; two spools with
\* the same id
TotalsSpoolTables ==
    {<<SpoolRow(S_A, S_PLA, <<>>, S_Black, <<>>, S_10, <<>>, S_day),
       SpoolRow(S_B, S_PLA, <<>>, S_Black, <<>>, S_x, <<>>, S_day)>>,
     <<SpoolRow(S_A, S_PLA, <<>>, S_Black, <<>>, S_10, <<>>, S_day),
       SpoolRow(S_A, S_PLA, <<>>, S_Black, <<>>, S_1000, <<>>, S_day)>>}

InitTotals ==
    \E jobs \in SeqsUpTo(TotalsJobRows, MaxTotalsJobs), spools \in TotalsSpoolTables :
        InitApp(Today0,
                [p \in {"filament_log.csv", "filament_spools.csv"} |->
                    IF p = "filament_log.csv" THEN write_rows(JOB_COLS, jobs)
                    ELSE write_rows(SPOOL_COLS, spools)],
                "filament_log.csv", "filament_spools.csv")

NextTotals ==
    \/ \E sid \in Range(spool_filter_values) : select_spool_filter(sid)
    \/ \E iid \in 1..MaxTotalsJobs : delete_job(iid)
    \/ \E iid \in 1..2 : delete_spool(iid)

SpecTotals == InitTotals /\ [][NextTotals]_vars

RECURSIVE SumOver(_, _)
SumOver(S, f) ==
    IF S = {} THEN 0
    ELSE LET x == CHOOSE y \in S : TRUE IN f[x] + SumOver(S \ {x}, f)

\* The jobs that pass the filter
IncludedJobs ==
    {i \in 1..Len(jobs_tree) :
        spool_filter_var = S_All \/ jobs_tree[i]["Spool ID"] = spool_filter_var}

\* A field as a number, 0 when it does not parse
PotentialOf == [i \in 1..Len(jobs_tree) |-> safe_float(jobs_tree[i]["Grams Potential"])]

LostOf == [i \in 1..Len(jobs_tree) |-> safe_float(jobs_tree[i]["Lost (g)"])]

\* The status as written in the row, and as update_totals reads it
StatusAsWritten(i) == jobs_tree[i]["Status"]

StatusAsRead(i) == Lower(Strip(jobs_tree[i]["Status"]))

ConsumedAsRead ==
    SumOver({i \in IncludedJobs : StatusAsRead(i) = S_success}, PotentialOf)
    + SumOver({i \in IncludedJobs : StatusAsRead(i) = S_failed}, LostOf)

\* C3 as stated: the totals over the included jobs, a job's status being the
\* text of its Status field.
C3_TotalsByWrittenStatus ==
    /\ total_potential_var = Format2f(SumOver(IncludedJobs, PotentialOf))
    /\ total_lost_var =
           Format2f(SumOver({i \in IncludedJobs : StatusAsWritten(i) = S_failed}, LostOf))
    /\ total_consumed_var =
           Format2f(SumOver({i \in IncludedJobs : StatusAsWritten(i) = S_success}, PotentialOf)
                    + SumOver({i \in IncludedJobs : StatusAsWritten(i) = S_failed}, LostOf))

\* C3 (amended): total_potential is the sum of potential over the included
\* jobs, total_lost the sum of lost over the included failed jobs and
\* total_consumed the sum of potential over the included successful jobs plus
\* the sum of lost over the included failed jobs, where a job is successful or
\* failed when its Status field, trimmed and lowercased, is "success" or
\* "failed"; every other job adds to total_potential only and a field that
\* does not parse counts as 0.
C3_TotalsByReadStatus ==
    /\ total_potential_var = Format2f(SumOver(IncludedJobs, PotentialOf))
    /\ total_lost_var =
           Format2f(SumOver({i \in IncludedJobs : StatusAsRead(i) = S_failed}, LostOf))
    /\ total_consumed_var = Format2f(ConsumedAsRead)

\* A successful job of 7 g, a failed one of 7 g that lost 3 g, filter on
\* their spool: potential 14, consumed 10, lost 3
C3_Witness ==
    /\ spool_filter_var = S_A
    /\ Len(jobs_tree) = 2
    /\ \E i, j \in IncludedJobs :
          /\ StatusAsWritten(i) = S_success
          /\ StatusAsWritten(j) = S_failed
    /\ total_potential_var = <<"1","4",".","0","0">>
    /\ total_consumed_var = <<"1","0",".","0","0">>
    /\ total_lost_var = <<"3",".","0","0">>

\* The size of the first spool with the id of the filter, 0 without one
FilterSpools == {i \in 1..Len(spools_tree) : spools_tree[i]["Spool ID"] = spool_filter_var}

FilterSpoolSize ==
    IF FilterSpools = {} THEN 0
    ELSE safe_float(spools_tree[CHOOSE i \in FilterSpools :
                                    \A j \in FilterSpools : i <= j]["Spool Size (g)"])

\* C4: with a spool selected, remaining is max(size - total_consumed, 0),
\* size being that of the first spool with the selected id (0 without one)
\* and total_consumed the consumed total of the jobs of that spool; the
\* remaining shown is never negative.
C4_RemainingClamped ==
    /\ spool_filter_var # S_All =>
           spool_remaining_var =
               Format2f(IF FilterSpoolSize - ConsumedAsRead > 0
                        THEN FilterSpoolSize - ConsumedAsRead ELSE 0)
    /\ Head(spool_remaining_var) # "-"

\* Two successful jobs of 7 g on a spool of 10 g: remaining 0, not -4
C4_Witness ==
    /\ spool_filter_var = S_A
    /\ FilterSpoolSize = 10
    /\ ConsumedAsRead = 14
    /\ spool_remaining_var = <<"0",".","0","0">>

(***************************************************************************)
(* The job dialog on its own: "Add", "Edit" and "Delete" of the jobs tab   *)
(* and the dialog filled with every form, over jobs files whose rows were  *)
(* not written by the dialog.                                              *)
(***************************************************************************)
MaxDlgJobs == 1

S_d_ == <<"d"," ">>
S_blank == <<" ">>
S_7_ == <<" ","7">>
S_3_ == <<"3"," ">>
S_bogus == <<"d","o","n","e">>

\* <<date, name, potential, lost>> as typed
JobForms ==
    {<<<<>>, S_n, S_x, S_x>>,
     <<S_d_, S_blank, S_7_, S_3_>>,
     <<S_d_, S_n, S_x, S_x>>,
     <<S_d_, S_n, S_7_, S_x>>,
     <<S_d_, S_n, S_7_, <<>>>>,
     <<S_d_, S_n, S_blank, S_3_>>,
     <<S_d_, S_n, S_7_, S_3_>>}

\* The jobs files the program may start on: empty, a row whose status is in
\* another spelling, a row whose status is none of the four
DlgJobTables ==
    {<<>>,
     <<JobRow(S_day, S_n, S_7, S_Success_, S_3, <<>>)>>,
     <<JobRow(S_day, S_n, S_7, S_bogus, S_x, S_A)>>}

InitJobDialog ==
    \E jobs \in DlgJobTables :
        InitApp(Today0,
                [p \in {"filament_log.csv", "filament_spools.csv"} |->
                    IF p = "filament_log.csv" THEN write_rows(JOB_COLS, jobs)
                    ELSE write_rows(SPOOL_COLS, <<>>)],
                "filament_log.csv", "filament_spools.csv")

NextJobDialog ==
    \/ add_job(MaxDlgJobs)
    \/ \E iid \in 1..MaxDlgJobs : edit_job(iid)
    \/ \E iid \in 1..MaxDlgJobs : delete_job(iid)
    \/ JobDialogType(JobForms, Range(STATUSES))
    \/ JobDialogOk
    \/ JobDialogCancel

SpecJobDialog == InitJobDialog /\ [][NextJobDialog]_vars

\* The four rules on the text of the fields: a text is empty when nothing
\* is left of it after trimming, a number when float() takes it
Blank(s) == Strip(s) = <<>>

JobRuleFails(f) ==
    <<Blank(f["Date"]) \/ Blank(f["Name of Job"]),
      ~Blank(f["Grams Potential"]) /\ ~is_float(f["Grams Potential"]),
      \A k \in 1..4 : Lower(Strip(f["Status"])) # STATUSES[k],
      IF Lower(Strip(f["Status"])) = S_failed
      THEN Blank(f["Lost (g)"]) \/ ~is_float(f["Lost (g)"])
      ELSE ~Blank(f["Lost (g)"]) /\ ~is_float(f["Lost (g)"])>>

JobRuleMessage(f) ==
    <<"Date and Name are required.",
      "Grams Potential must be a number.",
      "Status must be one of: init, success, failed, pending",
      IF Lower(Strip(f["Status"])) = S_failed
      THEN "Please enter Lost (g) for failed prints."
      ELSE "Lost (g) must be a number or blank.">>

FirstFailingJobRule(f) ==
    CHOOSE k \in 1..4 : JobRuleFails(f)[k] /\ \A j \in 1..(k - 1) : ~JobRuleFails(f)[j]

\* C8: OK of the job dialog evaluates the rules in the order date and name,
\* potential, status, lost grams; when a rule fails the error shown is that
\* of the first failing rule, nothing is committed, the jobs table is
\* unchanged and the dialog stays open with the input; when none fails the
\* record is committed.
C8_FirstFailingRuleRejects ==
    [][JobDialogOk =>
          IF \E k \in 1..4 : JobRuleFails(dlg.fields)[k]
          THEN /\ messagebox' = JobRuleMessage(dlg.fields)[FirstFailingJobRule(dlg.fields)]
               /\ jobs_tree' = jobs_tree
               /\ dlg' = dlg
               /\ callback' = NoData
          ELSE /\ messagebox' = ""
               /\ callback'.kind = "job"
               /\ dlg' = NoDialog]_vars

\* The dialog is still open on a form whose potential and lost grams are
\* both no numbers, and the error shown is that of the potential
C8_Witness ==
    /\ dlg.kind = "job"
    /\ JobRuleFails(dlg.fields) = <<FALSE, TRUE, FALSE, TRUE>>
    /\ messagebox = "Grams Potential must be a number."

CommittedJobRow == IF dlg.iid = 0 THEN jobs_tree'[Len(jobs_tree')] ELSE jobs_tree'[dlg.iid]

\* C9 as stated: a committed job has one of the four statuses in lowercase;
\* failed, its lost grams is non-empty, numeric and the entered text; not
\* failed, its lost grams is empty.
C9_CommittedLostAsEntered ==
    [][callback'.kind = "job" =>
          /\ CommittedJobRow = callback'.data
          /\ callback'.data["Status"] \in Range(STATUSES)
          /\ IF callback'.data["Status"] = S_failed
             THEN /\ callback'.data["Lost (g)"] # <<>>
                  /\ is_float(callback'.data["Lost (g)"])
                  /\ callback'.data["Lost (g)"] = dlg.fields["Lost (g)"]
             ELSE callback'.data["Lost (g)"] = <<>>]_vars

\* C9 (amended): a committed job has one of the four statuses in lowercase;
\* failed, its lost grams is non-empty, numeric and the entered text without
\* its leading and trailing blanks; not failed, its lost grams is empty
\* whatever was entered.
C9_CommittedLostTrimmed ==
    [][callback'.kind = "job" =>
          /\ CommittedJobRow = callback'.data
          /\ callback'.data["Status"] \in Range(STATUSES)
          /\ IF callback'.data["Status"] = S_failed
             THEN /\ callback'.data["Lost (g)"] # <<>>
                  /\ is_float(callback'.data["Lost (g)"])
                  /\ callback'.data["Lost (g)"] = Strip(dlg.fields["Lost (g)"])
             ELSE callback'.data["Lost (g)"] = <<>>]_vars

\* A failed job was committed with its lost grams, and a job that is not
\* failed is in the table with its lost grams emptied
C9_Witness ==
    /\ callback.kind = "job"
    /\ callback.data["Status"] = S_failed
    /\ callback.data["Lost (g)"] = S_3
    /\ jobs_tree[Len(jobs_tree)] = callback.data

(***************************************************************************)
(* The fields of the spool dialog: "Add", "Edit" and "Delete" of the       *)
(* spools tab, typing, the two lists, "OK" and "Cancel".                   *)
(***************************************************************************)
MaxDlgSpools == 1

S_A_ == <<"A"," ">>

\* The spools files the program may start on: empty, or one spool of
\* material "Other"
DlgSpoolTables ==
    {<<>>,
     <<SpoolRow(S_A, S_Other, S_x, S_Black, <<>>, S_1000, <<>>, S_day)>>}

InitSpoolDialog ==
    \E spools \in DlgSpoolTables :
        InitApp(Today0,
                [p \in {"filament_log.csv", "filament_spools.csv"} |->
                    IF p = "filament_log.csv" THEN write_rows(JOB_COLS, <<>>)
                    ELSE write_rows(SPOOL_COLS, spools)],
                "filament_log.csv", "filament_spools.csv")

NextSpoolDialog ==
    \/ add_spool(MaxDlgSpools, MaxSeq)
    \/ \E iid \in 1..MaxDlgSpools : edit_spool(iid)
    \/ \E iid \in 1..MaxDlgSpools : delete_spool(iid)
    \/ SpoolDialogType({<<>>, S_A_}, {S_x}, {S_blank, S_x})
    \/ \E material \in Range(MATERIALS) : on_material_change(material)
    \/ \E color \in Range(COLORS) : on_color_change(color)
    \/ SpoolDialogOk
    \/ SpoolDialogCancel

SpecSpoolDialog == InitSpoolDialog /\ [][NextSpoolDialog]_vars

CommittedSpoolRow ==
    IF dlg.iid = 0 THEN spools_tree'[Len(spools_tree')] ELSE spools_tree'[dlg.iid]

\* C10: OK of the spool dialog with material Other and no other-material
\* text, or colour Other and no other-colour text, shows an error and commits
\* nothing; every committed spool has a non-empty id, a numeric size, a
\* non-empty other-material exactly when its material is Other and a
\* non-empty other-colour exactly when its colour is Other; an edit that
\* takes a spool from material Other to another material stores an empty
\* other-material.
C10_SpoolOtherFields ==
    [][SpoolDialogOk =>
          /\ (\/ (Strip(dlg.fields["Material"]) = S_Other /\ Blank(dlg.fields["Other Material"]))
              \/ (Strip(dlg.fields["Color"]) = S_Other /\ Blank(dlg.fields["Other Color"])))
             => /\ messagebox' # ""
                /\ callback' = NoData
                /\ spools_tree' = spools_tree
                /\ dlg' = dlg
          /\ callback'.kind = "spool" =>
                /\ CommittedSpoolRow = callback'.data
                /\ callback'.data["Spool ID"] # <<>>
                /\ is_float(callback'.data["Spool Size (g)"])
                /\ callback'.data["Other Material"] # <<>>
                       <=> callback'.data["Material"] = S_Other
                /\ callback'.data["Other Color"] # <<>>
                       <=> callback'.data["Color"] = S_Other
                /\ (/\ dlg.iid # 0
                    /\ spools_tree[dlg.iid]["Material"] = S_Other
                    /\ callback'.data["Material"] # S_Other)
                   => callback'.data["Other Material"] = <<>>]_vars

\* The spool that the file holds with material Other and its text has been
\* edited to PLA and is stored without the text
C10_Witness ==
    /\ callback.kind = "spool"
    /\ Len(spools_tree) = 1
    /\ Len(spools_rows) = 1
    /\ spools_rows[1]["Material"] = S_Other
    /\ spools_rows[1]["Other Material"] = S_x
    /\ spools_tree[1] = callback.data
    /\ spools_tree[1]["Spool ID"] = spools_rows[1]["Spool ID"]
    /\ spools_tree[1]["Material"] = S_PLA
    /\ spools_tree[1]["Other Material"] = <<>>

(***************************************************************************)
(* The Spool ID through "Add", "Edit" and "Delete": the ID entry of the    *)
(* dialog (lines 477-483) takes text in both modes, next to the            *)
(* "Auto-generate" button.                                                 *)
(***************************************************************************)
MaxIdSpools == 2

InitSpoolIds == InitSpoolDialog

NextSpoolIds ==
    \/ add_spool(MaxIdSpools, MaxSeq)
    \/ \E iid \in 1..MaxIdSpools : edit_spool(iid)
    \/ \E iid \in 1..MaxIdSpools : delete_spool(iid)
    \/ SpoolDialogType({S_A_, S_B}, {}, {})
    \/ auto_id(MaxSeq)
    \/ SpoolDialogOk
    \/ SpoolDialogCancel

SpecSpoolIds == InitSpoolIds /\ [][NextSpoolIds]_vars

\* C6: no two records of the spools table have the same Spool ID.
C6_UniqueSpoolIds ==
    \A i, j \in 1..Len(spools_tree) :
        i # j => spools_tree[i]["Spool ID"] # spools_tree[j]["Spool ID"]

\* C7: an accepted edit leaves the Spool ID of the edited record as it was.
C7_EditKeepsSpoolId ==
    [][(SpoolDialogOk /\ dlg.iid # 0) =>
          spools_tree'[dlg.iid]["Spool ID"] = spools_tree[dlg.iid]["Spool ID"]]_vars

(***************************************************************************)
(* The totals row against the tables it is computed from.                  *)
(***************************************************************************)
\* C5: the four displayed totals are update_totals of the current jobs
\* table, the current spools table and the selected filter.
C5_TotalsCurrent ==
    LET t == update_totals(jobs_tree, spools_tree, spool_filter_var)
    IN  /\ total_potential_var = t.total_potential
        /\ total_consumed_var = t.total_consumed
        /\ total_lost_var = t.total_lost
        /\ spool_remaining_var = t.spool_remaining

(***************************************************************************)
(* The files on disk under every handler of the main window: the two tabs, *)
(* the totals filter, "Open", "Export", "Save" and "Reload".               *)
(***************************************************************************)
MaxFileJobs == 1

MaxFileSpools == 1

FilePaths == {"filament_log.csv", "filament_spools.csv", "export.csv"}

\* Both tables start empty and export.csv does not exist
InitFiles ==
    InitApp(Today0,
            [p \in FilePaths |->
                CASE p = "filament_log.csv" -> write_rows(JOB_COLS, <<>>)
                  [] p = "filament_spools.csv" -> write_rows(SPOOL_COLS, <<>>)
                  [] p = "export.csv" -> NoFile],
            "filament_log.csv", "filament_spools.csv")

NextFiles ==
    \/ reload_jobs
    \/ save_jobs
    \/ choose_jobs_csv("filament_log.csv")
    \/ add_job(MaxFileJobs)
    \/ \E iid \in 1..MaxFileJobs : edit_job(iid)
    \/ \E iid \in 1..MaxFileJobs : delete_job(iid)
    \/ JobDialogType(AppJobForms, {S_success})
    \/ JobDialogOk
    \/ JobDialogCancel
    \/ reload_spools
    \/ save_spools
    \/ choose_spools_csv("filament_spools.csv")
    \/ add_spool(MaxFileSpools, MaxSeq)
    \/ \E iid \in 1..MaxFileSpools : edit_spool(iid)
    \/ \E iid \in 1..MaxFileSpools : delete_spool(iid)
    \/ SpoolDialogOk
    \/ SpoolDialogCancel
    \/ \E sid \in Range(spool_filter_values) : select_spool_filter(sid)
    \/ \E kind \in {"jobs", "spools"} : export_csv_as(kind, "export.csv")

SpecFiles == InitFiles /\ [][NextFiles]_vars

\* The handlers that write the file at path p
FileWriter(p) ==
    \/ save_jobs /\ p = jobs_csv
    \/ save_spools /\ p = spools_csv
    \/ \E kind \in {"jobs", "spools"} : export_csv_as(kind, p)

\* Add, edit and delete of jobs and spools with their dialogs, and the
\* selection of the totals filter with the refresh of the totals it makes
TableStep ==
    \/ add_job(MaxFileJobs)
    \/ \E iid \in 1..MaxFileJobs : edit_job(iid) \/ delete_job(iid)
    \/ JobDialogType(AppJobForms, {S_success})
    \/ JobDialogOk
    \/ JobDialogCancel
    \/ add_spool(MaxFileSpools, MaxSeq)
    \/ \E iid \in 1..MaxFileSpools : edit_spool(iid) \/ delete_spool(iid)
    \/ SpoolDialogOk
    \/ SpoolDialogCancel
    \/ \E sid \in Range(spool_filter_values) : select_spool_filter(sid)

\* C11: add, edit and delete of jobs or spools and the selection of the
\* filter leave every file as it is, and the contents of a file that exists
\* change only in a step of "Save" on that file or of "Export" to its path.
C11_NoAutosave ==
    [][/\ TableStep => fs' = fs
       /\ \A p \in DOMAIN fs :
             (fs[p].exists /\ fs'[p] # fs[p]) => FileWriter(p)]_vars

\* A job has been committed to the table and the jobs file still holds no
\* row
C11_Witness ==
    /\ callback.kind = "job"
    /\ Len(jobs_tree) = 1
    /\ fs[jobs_csv] = write_rows(JOB_COLS, <<>>)

(***************************************************************************)
(* The program before the App is built (lines 602-609): the files on disk  *)
(* and the two paths of the command line.                                  *)
(***************************************************************************)
MainInit(date, files, jobs_path, spools_path) ==
    /\ today = date
    /\ fs = files
    /\ jobs_csv = jobs_path
    /\ spools_csv = spools_path
    /\ spools_rows = <<>>
    /\ jobs_tree = <<>>
    /\ spools_tree = <<>>
    /\ spool_filter_var = S_All
    /\ spool_filter_values = <<S_All>>
    /\ total_potential_var = <<>>
    /\ total_lost_var = <<>>
    /\ total_consumed_var = <<>>
    /\ spool_remaining_var = <<>>
    /\ dlg = [kind |-> "main"]
    /\ messagebox = ""
    /\ callback = NoData

\* The program has not built its window
MainUnchanged ==
    /\ TotalsUnchanged
    /\ UNCHANGED <<today, jobs_csv, spools_csv, spools_rows, jobs_tree, spools_tree,
                   spool_filter_var, spool_filter_values, messagebox, callback>>

(***************************************************************************)
(* Files as a text editor or an older version of the program leaves them:  *)
(* the header of a schema, the header without one column, the header with  *)
(* a column more or a blank first line, over records that are blank,       *)
(* short, of the header's length or longer.                                *)
(***************************************************************************)
MaxRecords == 2

\* A record of n fields, the k-th field holding the text of k
Full(n) == [k \in 1..n |-> NatToStr(k)]

RemoveCol(header, col) == SelectSeq(header, LAMBDA c : c # col)

RawHeaders(header, col) ==
    {header, RemoveCol(header, col), RemoveCol(header, col) \o <<"Comment">>, <<>>}

RawRecords(n) == {<<>>, Full(1), Full(n - 1), Full(n), Full(n + 1)}

RawFiles(header, col) ==
    {NoFile, File(<<>>)} \cup
    {File(<<h>> \o records) :
        h \in RawHeaders(header, col),
        records \in UNION {[1..n -> RawRecords(Len(header))] : n \in 0..MaxRecords}}

(***************************************************************************)
(* The Row Store on its own: read_rows followed by write_rows on one path, *)
(* under either schema.                                                    *)
(***************************************************************************)
InitRowStore ==
    \E file \in RawFiles(JOB_COLS, "Spool ID") \cup RawFiles(SPOOL_COLS, "Other Material") :
        MainInit(Today0,
                 [p \in {"filament_log.csv", "filament_spools.csv"} |->
                     IF p = "filament_log.csv" THEN file ELSE NoFile],
                 "filament_log.csv", "filament_spools.csv")

\* write_rows(path, header, read_rows(path, header))
load_save(path, header) ==
    /\ dlg.kind = "main"
    /\ fs' = [fs EXCEPT ![path] = write_rows(header, read_rows(@, header))]
    /\ dlg' = dlg
    /\ MainUnchanged

NextRowStore ==
    \E header \in {JOB_COLS, SPOOL_COLS} : load_save("filament_log.csv", header)

SpecRowStore == InitRowStore /\ [][NextRowStore]_vars

\* C12: the rows read from a file, written back and read again are the rows
\* read the first time, and a second save and load changes nothing.
C12_RoundTrip ==
    \A header \in {JOB_COLS, SPOOL_COLS} :
        LET rows == read_rows(fs[jobs_csv], header)
            saved == write_rows(header, rows)
            again == read_rows(saved, header)
        IN  /\ again = rows
            /\ write_rows(header, again) = saved
            /\ read_rows(write_rows(header, again), header) = again

(***************************************************************************)
(* The start of the program (lines 610-645): both files are created or     *)
(* brought to the schema before the App reads them.                        *)
(***************************************************************************)
\* Lines 616-626 with the rewrite made whatever the header holds
migrate_jobs_no_test(file) ==
    IF ~file.exists THEN File(<<JOB_COLS>>)
    ELSE LET rows == DictReader(file)
         IN  write_rows(JOB_COLS,
                 [i \in 1..Len(rows) |->
                     [c \in DOMAIN rows[i] \cup {"Spool ID"} |->
                         IF c = "Spool ID" THEN <<>> ELSE rows[i][c]]])

\* Lines 610-626: the jobs file after the first half of the start
migrate_jobs(file) ==
    IF ~file.exists THEN File(<<JOB_COLS>>)
    ELSE LET had_spool == "Spool ID" \in Range(Fieldnames(file))
             rows == DictReader(file)
         IN  IF had_spool THEN file
             ELSE write_rows(JOB_COLS,
                      [i \in 1..Len(rows) |->
                          [c \in DOMAIN rows[i] \cup {"Spool ID"} |->
                              IF c = "Spool ID" THEN <<>> ELSE rows[i][c]]])

\* Lines 640-643: the dict written for one row of an older spools file
MigratedSpoolRow(r) ==
    LET merged == [c \in Range(SPOOL_COLS) \cup DOMAIN r |->
                      IF c \in DOMAIN r THEN r[c] ELSE <<>>]
    IN  IF merged["Other Material"] \in {<<>>, None} /\ merged["Material"] # S_Other
        THEN [merged EXCEPT !["Other Material"] = <<>>]
        ELSE merged

\* Lines 627-645: the spools file after the second half of the start
migrate_spools(file) ==
    IF ~file.exists THEN File(<<SPOOL_COLS>>)
    ELSE LET fields == Fieldnames(file)
             rows == DictReader(file)
         IN  IF "Other Material" \in Range(fields) THEN file
             ELSE write_rows(SPOOL_COLS,
                      [i \in 1..Len(rows) |-> MigratedSpoolRow(rows[i])])

\* The program runs from its first line to line 647
main_migrate ==
    /\ dlg.kind = "main"
    /\ fs' = [fs EXCEPT ![jobs_csv] = migrate_jobs(@),
                        ![spools_csv] = migrate_spools(@)]
    /\ dlg' = [kind |-> "migrated"]
    /\ MainUnchanged

\* The window is closed with nothing saved and the program is started again
\* on the same paths
run_again ==
    /\ dlg.kind = "migrated"
    /\ dlg' = [kind |-> "main"]
    /\ UNCHANGED fs
    /\ MainUnchanged

\* An older jobs file of one row, and an older spools file of one row
LegacyJobsFile == File(<<RemoveCol(JOB_COLS, "Spool ID"), Full(5)>>)

LegacySpoolsFile == File(<<RemoveCol(SPOOL_COLS, "Other Material"), Full(7)>>)

InitMigration ==
    \E jobs \in RawFiles(JOB_COLS, "Spool ID"),
       spools \in RawFiles(SPOOL_COLS, "Other Material") :
        /\ jobs \in {NoFile, LegacyJobsFile} \/ spools \in {NoFile, LegacySpoolsFile}
        /\ MainInit(Today0,
                    [p \in {"filament_log.csv", "filament_spools.csv"} |->
                        IF p = "filament_log.csv" THEN jobs ELSE spools],
                    "filament_log.csv", "filament_spools.csv")

NextMigration == main_migrate \/ run_again

SpecMigration == InitMigration /\ [][NextMigration]_vars

\* The records of a file below its first line, blank lines left out
DataRecords(file) ==
    IF file.lines = <<>> THEN <<>> ELSE SelectSeq(Tail(file.lines), NotBlankLine)

\* The field a record holds in the column c of its header, "" if it holds none
OldField(header, record, c) ==
    IF \E k \in 1..Len(header) : header[k] = c /\ k <= Len(record)
    THEN record[CHOOSE k \in 1..Len(header) : header[k] = c /\ k <= Len(record)]
    ELSE <<>>

\* new holds the schema as its header and, row for row in the order of old,
\* an empty field in the column col and the fields of old in the others
Rewritten(old, new, schema, col) ==
    /\ new.exists
    /\ Len(new.lines) = 1 + Len(DataRecords(old))
    /\ Head(new.lines) = schema
    /\ \A i \in 1..Len(DataRecords(old)) :
          /\ Len(new.lines[i + 1]) = Len(schema)
          /\ \A k \in 1..Len(schema) :
                new.lines[i + 1][k] =
                    IF schema[k] = col THEN <<>>
                    ELSE OldField(Fieldnames(old), DataRecords(old)[i], schema[k])

MigratedAsClaimed(old, new, schema, col) ==
    /\ (old.exists /\ col \notin Range(Fieldnames(old))) => Rewritten(old, new, schema, col)
    /\ (old.exists /\ col \in Range(Fieldnames(old))) => new = old

\* C13: the start of the program rewrites a jobs file without the column
\* "Spool ID" (a spools file without "Other Material") with the full schema,
\* the new column empty, the other fields and the order of the rows kept;
\* it leaves a file that has the column as it is; run on its own result it
\* changes nothing.
C13_MigrationPreserves ==
    [][main_migrate =>
          /\ MigratedAsClaimed(fs[jobs_csv], fs'[jobs_csv], JOB_COLS, "Spool ID")
          /\ MigratedAsClaimed(fs[spools_csv], fs'[spools_csv], SPOOL_COLS,
                               "Other Material")
          /\ migrate_jobs(fs'[jobs_csv]) = fs'[jobs_csv]
          /\ migrate_spools(fs'[spools_csv]) = fs'[spools_csv]]_vars

\* The older jobs file and the older spools file have been rewritten, each
\* with its row and the new column empty
C13_Witness ==
    /\ dlg.kind = "migrated"
    /\ fs[jobs_csv].lines = <<JOB_COLS, Full(5) \o <<<<>>>>>>
    /\ fs[spools_csv].lines =
           <<SPOOL_COLS, SubSeq(Full(7), 1, 2) \o <<<<>>>> \o SubSeq(Full(7), 3, 7)>>

(***************************************************************************)
(* The Spool ID of a job against the spools table.                         *)
(***************************************************************************)
\* C14: the Spool ID of every job of the jobs table is empty or the Spool ID
\* of a record of the spools table.
C14_JobsReferToSpools ==
    \A i \in 1..Len(jobs_tree) :
        \/ jobs_tree[i]["Spool ID"] = <<>>
        \/ \E j \in 1..Len(spools_tree) :
              spools_tree[j]["Spool ID"] = jobs_tree[i]["Spool ID"]

(***************************************************************************)
(* The spool ids on offer against the spools table.                        *)
(***************************************************************************)
\* The ids JobDialog.__init__ (line 405) would offer below the empty choice
PickerIds == NonEmptyIds(spools_rows)

\* C15: the totals filter offers "(All)" and the non-empty Spool IDs of the
\* spools table, the spool picker of the job dialog offers those ids, and
\* the selected filter is "(All)" or the Spool ID of a spool of the table.
C15_OfferedIdsCurrent ==
    /\ spool_filter_values = <<S_All>> \o NonEmptyIds(spools_tree)
    /\ PickerIds = NonEmptyIds(spools_tree)
    /\ \/ spool_filter_var = S_All
       \/ \E j \in 1..Len(spools_tree) : spools_tree[j]["Spool ID"] = spool_filter_var

====
